---- MODULE Spec2Model ----
(***************************************************************************)
(* wmsr.py: save and restore the geometry and maximize state of the        *)
(* windows of an EWMH window manager.                                      *)
(*                                                                         *)
(* The window server (Xlib/ewmh) and the state file are the environment.   *)
(* Each public operation of WmWindowPersister and WmWindow.move is one     *)
(* action; the adapter requests an operation issues are recorded, in       *)
(* order, in `requests`.                                                   *)
(***************************************************************************)
EXTENDS Integers, Sequences, FiniteSets, TLC

VARIABLES
    server,     \* the window server: client window id -> its properties
    file,       \* the state file: missing, not JSON, or a JSON document
    windows,    \* WmWindowPersister.windows: None or the capture
    requests,   \* adapter requests issued by the last operation, in order
    last        \* the last operation: its name, arguments and how it ended

vars == <<server, file, windows, requests, last>>

----------------------------------------------------------------------------
(* Bounds of the model *)

MaxWin == 2          \* window ids the server may hold
MaxEntries == 2      \* entries of a state file the environment provides

----------------------------------------------------------------------------
(* Constants of the program *)

MAXIMIZED_VERT == "_NET_WM_STATE_MAXIMIZED_VERT"
MAXIMIZED_HORZ == "_NET_WM_STATE_MAXIMIZED_HORZ"
MAXIMIZED_STATES == {MAXIMIZED_VERT, MAXIMIZED_HORZ}
SKIP_ATTR == {"win"}
ACTION_REMOVE == 0
ACTION_ADD == 1
NORMAL == "_NET_WM_WINDOW_TYPE_NORMAL"

\* The filler second atom of a state request with one tag: the literal 0 of
\* `list(states) + [0]`, written as a string because tags are strings.
Filler == "0"

----------------------------------------------------------------------------
(* Values of the environment *)

FULLSCREEN == "_NET_WM_STATE_FULLSCREEN"
DIALOG == "_NET_WM_WINDOW_TYPE_DIALOG"
AllTags == {MAXIMIZED_VERT, MAXIMIZED_HORZ, FULLSCREEN}

\* Window ids: multiples of 7, so that ids of one and of two decimal digits
\* occur.  AbsentId is an id no live window has.
WinIds == {7 * k : k \in 1..MaxWin}
AbsentId == 7 * MaxWin + 5

G0 == <<0, 0, 800, 600>>
G1 == <<100, 100, 800, 600>>
GShort == <<0, 0, 800>>
Geometries == {G0, G1}

TypeLists == {<<>>, <<NORMAL>>, <<DIALOG>>, <<NORMAL, DIALOG>>, <<DIALOG, NORMAL>>}
LiveStates == {{}, {MAXIMIZED_VERT}, {MAXIMIZED_VERT, MAXIMIZED_HORZ, FULLSCREEN}}
TargetStates == {{}, {MAXIMIZED_HORZ}, {MAXIMIZED_VERT, MAXIMIZED_HORZ}}

\* The iteration orders a Python set of tags may have, each given as the
\* sequence of all tags: two opposite orders, so that every two tags occur
\* in both relative orders.
TagOrders ==
    {<<MAXIMIZED_VERT, MAXIMIZED_HORZ, FULLSCREEN>>,
     <<FULLSCREEN, MAXIMIZED_HORZ, MAXIMIZED_VERT>>}

----------------------------------------------------------------------------
(* Python built-ins the program uses *)

Digits == <<"0", "1", "2", "3", "4", "5", "6", "7", "8", "9">>

\* str(n) for n >= 0, as the sequence of its decimal digits
RECURSIVE str(_)
str(n) == IF n < 10 THEN <<Digits[n + 1]>> ELSE str(n \div 10) \o <<Digits[(n % 10) + 1]>>

DigitValue(c) == (CHOOSE i \in DOMAIN Digits : Digits[i] = c) - 1

\* int(s) for a sequence of decimal digits
RECURSIVE int(_)
int(s) == IF Len(s) = 0 THEN 0 ELSE 10 * int(SubSeq(s, 1, Len(s) - 1)) + DigitValue(s[Len(s)])

\* list(S) for a set S of tags iterated in order `ord`
RECURSIVE ListFrom(_, _, _)
ListFrom(S, ord, i) ==
    IF i > Len(ord) THEN <<>>
    ELSE (IF ord[i] \in S THEN <<ord[i]>> ELSE <<>>) \o ListFrom(S, ord, i + 1)

list(S, ord) == ListFrom(S, ord, 1)

\* set(l) for a list l
set(l) == {l[i] : i \in DOMAIN l}

\* the ids of a set in ascending order
RECURSIVE Ascending(_)
Ascending(S) ==
    IF S = {} THEN <<>>
    ELSE LET m == CHOOSE x \in S : \A y \in S : x <= y
         IN <<m>> \o Ascending(S \ {m})

----------------------------------------------------------------------------
(* Adapter requests *)

SetWmStateReq(win, action, tag1, tag2) ==
    [op |-> "setWmState", win |-> win, action |-> action,
     tags |-> <<tag1, tag2>>, geometry |-> <<>>]

SetMoveResizeWindowReq(win, geometry) ==
    [op |-> "setMoveResizeWindow", win |-> win, action |-> -1,
     tags |-> <<>>, geometry |-> geometry]

FlushReq ==
    [op |-> "flush", win |-> 0, action |-> -1, tags |-> <<>>, geometry |-> <<>>]

----------------------------------------------------------------------------
(* WmWindow *)

\* WmWindow.__init__ with a live window: the snapshot read from the server
WmWindow(id, props) ==
    [win |-> id, id |-> id, type |-> props.type, state |-> props.state,
     name |-> props.name, geometry |-> props.geometry]

\* The optional `state` argument of move: None, or Some(S)
None == <<>>
Some(S) == <<S>>

\* The target maximize set of a move that takes an omitted state as empty
TargetMaximizeEmptyDefault(self, state) ==
    IF state # None THEN state[1] \cap MAXIMIZED_STATES ELSE {}

\* The target maximize set of move: `states` keeps the live window's
\* maximize tags unless a state is given
TargetMaximize(self, state) ==
    IF state # None THEN state[1] \cap MAXIMIZED_STATES
    ELSE self.state \cap MAXIMIZED_STATES

\* A state request that carries only the first tag
StateRequestFirstTag(self, action, states, ord) ==
    SetWmStateReq(self.win, action, list(states, ord)[1], Filler)

\* One state request carrying the tags of `states`, filler included
StateRequest(self, action, states, ord) ==
    LET states_list == list(states, ord) \o <<Filler>>
    IN  SetWmStateReq(self.win, action, states_list[1], states_list[2])

\* A comparison that never finds the geometry unchanged
SameGeometryNever(self, geometry) == FALSE

\* The test of move for an unchanged geometry
SameGeometry(self, geometry) == geometry = self.geometry

\* WmWindow.move: the requests issued and the exception raised, if any
move(self, geometry, state, ord) ==
    IF SameGeometry(self, geometry)
    THEN [reqs |-> <<>>, raised |-> ""]
    ELSE LET states == self.state \cap MAXIMIZED_STATES
             removing == IF Cardinality(states) > 0
                         THEN <<StateRequest(self, ACTION_REMOVE, states, ord)>>
                         ELSE <<>>
             target == TargetMaximize(self, state)
             restoring == IF Cardinality(target) > 0
                          THEN <<StateRequest(self, ACTION_ADD, target, ord)>>
                          ELSE <<>>
         IN  IF Len(geometry) # 4
             THEN [reqs |-> removing, raised |-> "ValueError"]
             ELSE [reqs |-> removing \o <<SetMoveResizeWindowReq(self.win, geometry)>> \o restoring,
                   raised |-> ""]

----------------------------------------------------------------------------
(* WmWindowPersister *)

\* self.windows: None, or the capture as the snapshots in insertion order
\* (a dict keyed by window id)
NoWindows == [isNone |-> TRUE, items |-> <<>>]
Captured(items) == [isNone |-> FALSE, items |-> items]

Keys(items) == {items[i].id : i \in DOMAIN items}
Lookup(items, id) == items[CHOOSE i \in DOMAIN items : items[i].id = id]

\* ew.getClientList()
getClientList(srv) == Ascending(DOMAIN srv)

\* A filter that keeps every window that has the normal type among its types
EligibleAnyNormal(w, filter) ==
    ~filter \/ (\E i \in DOMAIN w.type : w.type[i] = NORMAL)

\* The filter of get_windows
Eligible(w, filter) ==
    ~filter \/ (Len(w.type) = 1 /\ w.type[1] = NORMAL)

\* The loop of get_windows over the client list `wins`; `vanished` holds the
\* window destroyed while it is being read, if any, whose read raises
\* Xlib.error.BadWindow.  Nothing in get_windows or WmWindow.__init__
\* handles the exception.
RECURSIVE get_windows_loop(_, _, _, _, _)
get_windows_loop(srv, wins, filter, vanished, acc) ==
    IF wins = <<>> THEN [items |-> acc, raised |-> ""]
    ELSE LET win == Head(wins)
         IN  IF win \in vanished
             THEN [items |-> acc, raised |-> "BadWindow"]
             ELSE LET w == WmWindow(win, srv[win])
                  IN  get_windows_loop(srv, Tail(wins), filter, vanished,
                                       IF Eligible(w, filter) THEN Append(acc, w) ELSE acc)

get_windows(srv, filter, vanished) ==
    get_windows_loop(srv, getClientList(srv), filter, vanished, <<>>)

\* A serializer that skips no attribute
SerializedKeysAll(obj) == DOMAIN obj

\* The attributes of a snapshot that WmWindow.serializer keeps
SerializedKeys(obj) == DOMAIN obj \ SKIP_ATTR

\* WmWindow.serializer: the attributes but those of SKIP_ATTR; a set becomes
\* a list
serializer(obj, ord) ==
    [key \in SerializedKeys(obj) |->
        IF key = "state" THEN list(obj[key], ord) ELSE obj[key]]

\* The key json.dumps writes for an integer dict key
JsonKey(id) == str(id)

\* dumps: the JSON object, as its members in order.  json.dumps raises the
\* TypeError that dumps turns into None only for a value serializer does not
\* know; a snapshot built by WmWindow.__init__ holds integers, strings,
\* lists and one set, so dumps always returns the text here.
dumps(items, ord) ==
    [i \in DOMAIN items |-> [key |-> JsonKey(items[i].id), val |-> serializer(items[i], ord)]]

\* The state file
MissingFile == [kind |-> "missing", entries |-> <<>>]
InvalidFile == [kind |-> "invalid", entries |-> <<>>]
JsonFile(entries) == [kind |-> "json", entries |-> entries]

\* The file after open(filename, 'w') succeeded and the write failed: empty
\* or a prefix of the text, not a JSON document
TruncatedFile == [kind |-> "truncated", entries |-> <<>>]

\* A write that truncates the file even when it cannot be opened
FileAfterSaveTruncating(f, io, data) ==
    IF io = "ok" THEN JsonFile(data) ELSE TruncatedFile

\* The file after save opened it for writing and wrote `data`: open fails,
\* or it truncates the file and the write fails or succeeds
FileAfterSave(f, io, data) ==
    CASE io = "open_fails" -> f
      [] io = "write_fails" -> TruncatedFile
      [] OTHER -> JsonFile(data)

\* read_data: the decoded members, or None
read_data(f) ==
    IF f.kind = "json" THEN [isNone |-> FALSE, entries |-> f.entries]
    ELSE [isNone |-> TRUE, entries |-> <<>>]

\* A lookup by the string key, which no integer key of the capture equals
PresentByStringKey(iid, items) == FALSE

\* Whether restore finds the window of a member in the capture
Present(iid, items) == iid \in Keys(items)

\* The loop of restore over the members of the decoded file
RECURSIVE restore_loop(_, _, _, _)
restore_loop(entries, items, ord, acc) ==
    IF entries = <<>> THEN [reqs |-> acc, raised |-> ""]
    ELSE LET win == Head(entries).val
             iid == int(Head(entries).key)
         IN  IF ~Present(iid, items)
             THEN restore_loop(Tail(entries), items, ord, acc)
             ELSE IF "geometry" \notin DOMAIN win \/ "state" \notin DOMAIN win
             THEN [reqs |-> acc, raised |-> "KeyError"]
             ELSE LET m == move(Lookup(items, iid), win["geometry"], Some(set(win["state"])), ord)
                  IN  IF m.raised # ""
                      THEN [reqs |-> acc \o m.reqs, raised |-> m.raised]
                      ELSE restore_loop(Tail(entries), items, ord, acc \o m.reqs)

\* The requests of a restore whose capture is `items`: the loop, then flush
restore_requests(entries, items, ord) ==
    LET r == restore_loop(entries, items, ord, <<>>)
    IN  IF r.raised # "" THEN r
        ELSE [reqs |-> r.reqs \o <<FlushReq>>, raised |-> ""]

----------------------------------------------------------------------------
(* The environment at start *)

Props(type, state, geometry) ==
    [type |-> type, state |-> state, name |-> "Editor", geometry |-> geometry]

\* Servers holding any of the window ids, each with properties of P
Servers(P) == UNION {[D -> P] : D \in SUBSET WinIds}

\* The order in which the state lists of a provided file are written
FileOrder == <<MAXIMIZED_VERT, MAXIMIZED_HORZ, FULLSCREEN>>

\* The values a member of a provided state file may have for window `id`:
\* a full snapshot, one whose geometry is short, one with only its id
EntryValues(id) ==
    {[id |-> id, type |-> <<NORMAL>>, state |-> list(S, FileOrder), name |-> "Editor",
      geometry |-> g] : S \in {{}, MAXIMIZED_STATES}, g \in Geometries}
    \cup {[id |-> id, type |-> <<NORMAL>>, state |-> <<>>, name |-> "Editor",
           geometry |-> GShort]}
    \cup {[id |-> id]}

Entries == {[key |-> JsonKey(id), val |-> v] : <<id, v>> \in
                UNION {{<<i, w>> : w \in EntryValues(i)} : i \in WinIds \cup {AbsentId}}}

\* JSON documents of at most MaxEntries members with distinct keys
Documents ==
    {d \in UNION {[1..n -> Entries] : n \in 0..MaxEntries} :
        \A i, j \in DOMAIN d : d[i].key = d[j].key => i = j}

Files == {MissingFile, InvalidFile} \cup {JsonFile(d) : d \in Documents}

Outcome(op, filter, captured, io, args, ret, raised) ==
    [op |-> op, filter |-> filter, captured |-> captured, io |-> io, args |-> args,
     ret |-> ret, raised |-> raised]

\* The desktop whose state files are tried: every window normal, every
\* other one maximized and fullscreen at G1, the rest plain at G0
Desktop ==
    [id \in WinIds |->
        IF (id \div 7) % 2 = 1 THEN Props(<<NORMAL>>, AllTags, G1)
        ELSE Props(<<NORMAL>>, {}, G0)]

\* After WmWindowPersister(): windows is None, nothing requested yet
Constructed ==
    /\ windows = NoWindows
    /\ requests = <<>>
    /\ last = Outcome("init", FALSE, FALSE, "", <<>>, "", "")

\* Windows of any type; no state file
InitCapture ==
    /\ server \in Servers({Props(t, {}, G0) : t \in TypeLists})
    /\ file = MissingFile
    /\ Constructed

\* Normal windows of any state and geometry; no state file
InitMove ==
    /\ server \in Servers({Props(<<NORMAL>>, s, g) : s \in LiveStates, g \in Geometries})
    /\ file = MissingFile
    /\ Constructed

\* The desktop with any state file
InitRestore ==
    /\ server = Desktop
    /\ file \in Files
    /\ Constructed

\* Windows normal or not, of any geometry, plain or maximized and
\* fullscreen; the state file missing, not JSON, or an earlier document
InitSave ==
    /\ server \in Servers({Props(t, s, g) : t \in {<<NORMAL>>, <<NORMAL, DIALOG>>},
                                           s \in {{}, AllTags}, g \in Geometries})
    /\ file \in {MissingFile, InvalidFile,
                 JsonFile(<<[key |-> JsonKey(AbsentId), val |-> [id |-> AbsentId]]>>)}
    /\ Constructed

----------------------------------------------------------------------------
(* Operations *)

\* The windows that may be destroyed during a capture: none, or any one
Vanishing(srv) == {{}} \cup {{w} : w \in DOMAIN srv}

\* The server once the windows of `vanished` are destroyed
Destroyed(srv, vanished) == [w \in DOMAIN srv \ vanished |-> srv[w]]

\* get_windows(filter)
GetWindows(filter, vanished) ==
    LET got == get_windows(server, filter, vanished)
    IN  /\ windows' = Captured(got.items)
        /\ server' = Destroyed(server, vanished)
        /\ requests' = <<>>
        /\ last' = Outcome("get_windows", filter, TRUE, "", <<>>,
                           IF got.raised = "" THEN "None" ELSE "", got.raised)
        /\ UNCHANGED file

\* save(filename, reload); `io` says whether open and write succeed.  An
\* exception of the capture leaves save before the file is touched.
Save(reload, io, vanished, ord) ==
    LET capture == windows.isNone \/ reload
        got == IF capture THEN get_windows(server, TRUE, vanished)
               ELSE [items |-> windows.items, raised |-> ""]
        data == dumps(got.items, ord)
    IN  /\ ~capture => vanished = {}
        /\ windows' = IF capture THEN Captured(got.items) ELSE windows
        /\ server' = Destroyed(server, vanished)
        /\ requests' = <<>>
        /\ IF got.raised # ""
           THEN /\ file' = file
                /\ last' = Outcome("save", TRUE, capture, "", <<>>, "", got.raised)
           ELSE /\ file' = FileAfterSave(file, io, data)
                /\ last' = Outcome("save", TRUE, capture, io, <<>>,
                                   IF io = "ok" THEN "True" ELSE "False", "")

\* restore(filename, reload): False when the file cannot be read or decoded;
\* else the capture if there is none or on reload, then the loop and the
\* flush.  restore returns nothing (None) at its end and catches nothing.
Restore(reload, vanished, ord) ==
    LET data == read_data(file)
        capture == ~data.isNone /\ (windows.isNone \/ reload)
        got == IF capture THEN get_windows(server, TRUE, vanished)
               ELSE [items |-> windows.items, raised |-> ""]
        r == restore_requests(data.entries, got.items, ord)
    IN  /\ ~capture => vanished = {}
        /\ windows' = IF capture THEN Captured(got.items) ELSE windows
        /\ server' = Destroyed(server, vanished)
        /\ UNCHANGED file
        /\ IF data.isNone
           THEN /\ requests' = <<>>
                /\ last' = Outcome("restore", TRUE, FALSE, "", <<>>, "False", "")
           ELSE IF got.raised # ""
           THEN /\ requests' = <<>>
                /\ last' = Outcome("restore", TRUE, capture, "", <<>>, "", got.raised)
           ELSE /\ requests' = r.reqs
                /\ last' = Outcome("restore", TRUE, capture, "", <<>>,
                                   IF r.raised = "" THEN "None" ELSE "", r.raised)

\* WmWindow.move(geometry, ew, state) on a window of the capture
Move(id, geometry, state, ord) ==
    /\ ~windows.isNone
    /\ id \in Keys(windows.items)
    /\ LET m == move(Lookup(windows.items, id), geometry, state, ord)
       IN  /\ requests' = m.reqs
           /\ last' = Outcome("move", FALSE, FALSE, "", <<id, geometry, state>>,
                              IF m.raised = "" THEN "None" ELSE "", m.raised)
    /\ UNCHANGED <<server, file, windows>>

\* get_windows, with any window vanishing
NextCapture ==
    \E filter \in BOOLEAN, vanished \in Vanishing(server) :
        GetWindows(filter, vanished)

\* move on the windows of a capture
NextMove ==
    \/ \E filter \in BOOLEAN : GetWindows(filter, {})
    \/ \E id \in WinIds, geometry \in Geometries,
          state \in {None} \cup {Some(S) : S \in TargetStates}, ord \in TagOrders :
          Move(id, geometry, state, ord)

\* restore, from a fresh process or after a capture
NextRestore ==
    \/ \E filter \in BOOLEAN : GetWindows(filter, {})
    \/ \E reload \in BOOLEAN, vanished \in Vanishing(server), ord \in TagOrders :
          Restore(reload, vanished, ord)

\* save, from a fresh process or after a capture
NextSave ==
    \/ \E filter \in BOOLEAN : GetWindows(filter, {})
    \/ \E reload \in BOOLEAN, io \in {"ok", "open_fails", "write_fails"},
          vanished \in Vanishing(server), ord \in TagOrders :
          Save(reload, io, vanished, ord)

SpecCapture == InitCapture /\ [][NextCapture]_vars
SpecMove == InitMove /\ [][NextMove]_vars
SpecRestore == InitRestore /\ [][NextRestore]_vars
SpecSave == InitSave /\ [][NextSave]_vars

----------------------------------------------------------------------------
(* Reading the requests *)

IsStateChange(r) == r.op = "setWmState"
IsMoveResize(r) == r.op = "setMoveResizeWindow"
IsFlush(r) == r.op = "flush"

\* The requests issued to window `id`, in order
RequestsTo(id) == SelectSeq(requests, LAMBDA r : r.win = id)

\* The tags a state request carries, the filler aside
CarriedTags(r) == set(r.tags) \ {Filler}

\* r is the one state request that applies `action` to exactly `tags` of
\* window `id`: two tags, or one tag and the filler
CarriesAll(r, id, action, tags) ==
    /\ IsStateChange(r)
    /\ r.win = id
    /\ r.action = action
    /\ Len(r.tags) = 2
    /\ CarriedTags(r) = tags
    /\ Cardinality(tags) = 1 => r.tags[2] = Filler

\* reqs is: a remove of liveMax if not empty, the move/resize to geometry,
\* an add of targetMax if not empty; and nothing else
Sequenced(reqs, id, liveMax, geometry, targetMax) ==
    LET k == IF liveMax # {} THEN 1 ELSE 0
    IN  /\ Len(reqs) = k + 1 + (IF targetMax # {} THEN 1 ELSE 0)
        /\ liveMax # {} => CarriesAll(reqs[1], id, ACTION_REMOVE, liveMax)
        /\ reqs[k + 1] = SetMoveResizeWindowReq(id, geometry)
        /\ targetMax # {} => CarriesAll(reqs[k + 2], id, ACTION_ADD, targetMax)

\* The last operation was move(geometry, ew, state) on captured window `id`
\* with a geometry that differs from the captured one
Moved(id, geometry, state) ==
    /\ last.op = "move"
    /\ last.args = <<id, geometry, state>>
    /\ geometry # Lookup(windows.items, id).geometry

MoveArgs ==
    {<<id, g, st>> : id \in WinIds, g \in Geometries,
                     st \in {None} \cup {Some(S) : S \in TargetStates}}

LiveMaximize(id) == Lookup(windows.items, id).state \cap MAXIMIZED_STATES

----------------------------------------------------------------------------
(* WmWindow.move *)

\* C1 as stated: a move to a different geometry issues, in this order and
\* nothing else, one remove-state request with all maximize tags of the
\* live window if it has any, one move/resize request, and one add-state
\* request with all maximize tags of the target state if it has any, an
\* omitted target state having none.
C1_SequenceWithEmptyDefault ==
    \A a \in MoveArgs :
        Moved(a[1], a[2], a[3]) =>
            Sequenced(requests, a[1], LiveMaximize(a[1]), a[2],
                      IF a[3] = None THEN {} ELSE a[3][1] \cap MAXIMIZED_STATES)

\* C1 amended: as C1, the add-state request carrying the maximize tags of
\* the target state when one is given and those of the live window when
\* it is omitted.
C1_Sequence ==
    \A a \in MoveArgs :
        Moved(a[1], a[2], a[3]) =>
            Sequenced(requests, a[1], LiveMaximize(a[1]), a[2],
                      IF a[3] = None THEN LiveMaximize(a[1])
                      ELSE a[3][1] \cap MAXIMIZED_STATES)

\* A window maximized both ways was moved to a target state of one
\* maximize tag: three requests, the first with two tags, the last with one
C1_Witness ==
    \E a \in MoveArgs :
        /\ Moved(a[1], a[2], a[3])
        /\ LiveMaximize(a[1]) = MAXIMIZED_STATES
        /\ a[3] = Some({MAXIMIZED_HORZ})
        /\ Len(requests) = 3
        /\ requests[3].tags = <<MAXIMIZED_HORZ, Filler>>

\* C7 as stated: a move to a different geometry with the state omitted
\* issues no add-state request.
C7_NoAddWhenStateOmitted ==
    \A a \in MoveArgs :
        (Moved(a[1], a[2], a[3]) /\ a[3] = None) =>
            \A i \in DOMAIN requests : requests[i].action # ACTION_ADD

\* C7 amended: with the state omitted the target maximize set is the live
\* window's: after the move/resize an add-state request with the tags of
\* the remove-state request is issued when the live window was maximized,
\* and none when it was not.
C7_OmittedStateKeepsLive ==
    \A a \in MoveArgs :
        (Moved(a[1], a[2], a[3]) /\ a[3] = None) =>
            LET adds == SelectSeq(requests, LAMBDA r : r.action = ACTION_ADD)
            IN  IF LiveMaximize(a[1]) = {}
                THEN adds = <<>>
                ELSE /\ Len(adds) = 1
                     /\ adds[1] = requests[Len(requests)]
                     /\ IsMoveResize(requests[Len(requests) - 1])
                     /\ CarriedTags(adds[1]) = CarriedTags(requests[1])
                     /\ CarriedTags(adds[1]) = LiveMaximize(a[1])

\* A maximized window was moved with the state omitted
C7_Witness ==
    \E a \in MoveArgs :
        /\ Moved(a[1], a[2], a[3])
        /\ a[3] = None
        /\ LiveMaximize(a[1]) # {}
        /\ Len(requests) = 3

----------------------------------------------------------------------------
(* WmWindowPersister.get_windows *)

\* C5: when get_windows with the filter returns, the capture holds a window
\* of the client list if and only if its type list is the one-element list
\* of the normal type, each once and under its own id.
C5_FilterExactlyNormal ==
    (last.op = "get_windows" /\ last.filter /\ last.raised = "") =>
        /\ ~windows.isNone
        /\ Keys(windows.items) \subseteq DOMAIN server
        /\ \A id \in DOMAIN server :
              id \in Keys(windows.items) <=> server[id].type = <<NORMAL>>
        /\ \A i, j \in DOMAIN windows.items :
              windows.items[i].id = windows.items[j].id => i = j
        /\ \A i \in DOMAIN windows.items : windows.items[i].win = windows.items[i].id

\* A filtered capture kept a normal window and left out a window that has
\* the normal type among two types
C5_Witness ==
    /\ last.op = "get_windows" /\ last.filter /\ last.raised = ""
    /\ \E id \in DOMAIN server : server[id].type = <<NORMAL, DIALOG>>
    /\ \E id \in DOMAIN server : server[id].type = <<NORMAL>> /\ id \in Keys(windows.items)
    /\ Len(windows.items) = 1

\* C6: get_windows always returns, a window destroyed while it is read
\* being dropped, and the capture holds every other eligible window.
C6_VanishedWindowDropped ==
    last.op = "get_windows" =>
        /\ last.raised = ""
        /\ \A id \in DOMAIN server :
              (~last.filter \/ server[id].type = <<NORMAL>>) => id \in Keys(windows.items)

----------------------------------------------------------------------------
(* WmWindowPersister.restore *)

\* The last operation was a restore that decoded the state file (restore
\* leaves the file as it read it)
Decoded == last.op = "restore" /\ file.kind = "json"

\* ... and whose capture, `windows`, was there or was taken without failure
Applied == Decoded /\ last.raised # "BadWindow"

MemberId(e) == int(e.key)
HasGeometry(e) == "geometry" \in DOMAIN e.val
WellFormed(e) ==
    /\ {"geometry", "state"} \subseteq DOMAIN e.val
    /\ Len(e.val["geometry"]) = 4

\* C2: restore issues no request at all for a member of the file whose
\* window is in the capture with the very geometry of the member, whatever
\* the two state sets are.
C2_SameGeometryNoRequest ==
    Applied =>
        \A i \in DOMAIN file.entries :
            LET e == file.entries[i]
            IN  (/\ MemberId(e) \in Keys(windows.items)
                 /\ HasGeometry(e)
                 /\ e.val["geometry"] = Lookup(windows.items, MemberId(e)).geometry)
                => RequestsTo(MemberId(e)) = <<>>

\* A restore went through a member with the geometry of its maximized
\* window and no maximize tag of its own, and moved another window
C2_Witness ==
    /\ Applied
    /\ last.ret = "None"
    /\ \E i \in DOMAIN file.entries :
          LET e == file.entries[i]
          IN  /\ MemberId(e) \in Keys(windows.items)
              /\ WellFormed(e)
              /\ e.val["geometry"] = Lookup(windows.items, MemberId(e)).geometry
              /\ LiveMaximize(MemberId(e)) # {}
              /\ e.val["state"] = <<>>
              /\ RequestsTo(MemberId(e)) = <<>>
    /\ \E j \in DOMAIN requests : IsMoveResize(requests[j])

\* C3: a restore of a file that decodes and has a member without geometry
\* reports an error and issues no move/resize and no state-change request.
C3_NoPartialApply ==
    (Decoded /\ \E i \in DOMAIN file.entries : ~HasGeometry(file.entries[i])) =>
        /\ last.ret # "None"
        /\ \A j \in DOMAIN requests :
              ~IsMoveResize(requests[j]) /\ ~IsStateChange(requests[j])

\* C4: for a file of well-formed members, restore returns without raising;
\* it issues no request for a member whose id is not in the capture, and
\* for every member whose id is in the capture it issues the requests of
\* WmWindow.move with the member's geometry and state.
C4_AbsentSkippedOthersMoved ==
    (Applied /\ \A i \in DOMAIN file.entries : WellFormed(file.entries[i])) =>
        /\ last.raised = ""
        /\ last.ret = "None"
        /\ \A i \in DOMAIN file.entries :
              LET e == file.entries[i]
                  id == MemberId(e)
              IN  IF id \notin Keys(windows.items)
                  THEN RequestsTo(id) = <<>>
                  ELSE \E ord \in TagOrders :
                          RequestsTo(id) =
                              move(Lookup(windows.items, id), e.val["geometry"],
                                   Some(set(e.val["state"])), ord).reqs

\* A restore skipped its first member, whose window is not in the capture,
\* and moved the window of a later member
C4_Witness ==
    /\ Applied
    /\ last.ret = "None"
    /\ Len(file.entries) >= 2
    /\ MemberId(file.entries[1]) \notin Keys(windows.items)
    /\ \E i \in DOMAIN file.entries :
          /\ i > 1
          /\ WellFormed(file.entries[i])
          /\ \E j \in DOMAIN requests :
                requests[j] = SetMoveResizeWindowReq(MemberId(file.entries[i]),
                                                     file.entries[i].val["geometry"])

\* C8: in a restore that decoded the file a flush follows every request:
\* the requests, if any, end with a flush, and no flush comes earlier.
C8_FlushEndsEveryRestore ==
    Decoded =>
        /\ \A j \in DOMAIN requests : IsFlush(requests[j]) => j = Len(requests)
        /\ requests # <<>> => IsFlush(requests[Len(requests)])

----------------------------------------------------------------------------
(* WmWindowPersister.save and dumps *)

\* The file holds one member per window of the capture, in order, each
\* under the key of its window
FullyWritten(f, items) ==
    /\ f.kind = "json"
    /\ Len(f.entries) = Len(items)
    /\ \A i \in DOMAIN items : int(f.entries[i].key) = items[i].id

\* C9 as stated: a save that cannot open or cannot write the state file
\* returns False without raising and leaves the content of the file as it
\* was; a save returns True only with the full encoding written.
C9_FailedSaveKeepsFile ==
    [][last'.op = "save" =>
          /\ last'.io \in {"open_fails", "write_fails"} =>
                (last'.ret = "False" /\ last'.raised = "" /\ file' = file)
          /\ last'.ret = "True" => FullyWritten(file', windows'.items)]_vars

\* C9 amended: a save that cannot open the state file returns False without
\* raising and leaves the file as it was; a save that opened the file and
\* cannot write it returns False without raising and leaves the file
\* truncated, its earlier content lost; a save returns True only with the
\* full encoding written.
C9_FailedSave ==
    [][last'.op = "save" =>
          /\ last'.io = "open_fails" =>
                (last'.ret = "False" /\ last'.raised = "" /\ file' = file)
          /\ last'.io = "write_fails" =>
                (last'.ret = "False" /\ last'.raised = "" /\ file' = TruncatedFile)
          /\ last'.ret = "True" =>
                (last'.io = "ok" /\ FullyWritten(file', windows'.items))]_vars

\* A save failed to write the file it had opened
C9_Witness ==
    /\ last.op = "save"
    /\ last.io = "write_fails"
    /\ last.ret = "False"
    /\ file = TruncatedFile

\* C10: decoding what a successful save wrote gives one member per window
\* of the capture, under the decimal string of its id, with the window's
\* id, type, name and geometry, a state list of exactly the elements of
\* its state set, and no win.
C10_RoundTrip ==
    (last.op = "save" /\ last.ret = "True") =>
        LET decoded == read_data(file)
        IN  /\ ~decoded.isNone
            /\ Len(decoded.entries) = Len(windows.items)
            /\ \A i \in DOMAIN windows.items :
                  LET w == windows.items[i]
                      members == {j \in DOMAIN decoded.entries :
                                     int(decoded.entries[j].key) = w.id}
                  IN  /\ Cardinality(members) = 1
                      /\ \A j \in members :
                            LET e == decoded.entries[j]
                            IN  /\ e.key[1] # "0"
                                /\ \A k \in DOMAIN e.key : e.key[k] \in set(Digits)
                                /\ DOMAIN e.val = {"id", "type", "state", "name", "geometry"}
                                /\ e.val["id"] = w.id
                                /\ e.val["type"] = w.type
                                /\ e.val["name"] = w.name
                                /\ e.val["geometry"] = w.geometry
                                /\ set(e.val["state"]) = w.state
                                /\ Len(e.val["state"]) = Cardinality(w.state)

\* A save wrote two windows, one of them with three state tags
C10_Witness ==
    /\ last.op = "save"
    /\ last.ret = "True"
    /\ Len(windows.items) = 2
    /\ \E i \in DOMAIN windows.items : windows.items[i].state = AllTags
    /\ Len(file.entries) = 2
    /\ file.entries[2].key = <<"1", "4">>

====
